---------------------------- MODULE Spec2Model ----------------------------
(***************************************************************************)
(* A model of src/main.py: the Fed press-release monitor.                  *)
(*                                                                         *)
(* Texts, classification strings and urls are TLA+ strings handled one     *)
(* character at a time (Len, SubSeq, \o), so the substring tests, counts   *)
(* and regular expressions of the source are computed on the characters.   *)
(* A score is an IEEE double, as the float of the source is, and the       *)
(* arithmetic on scores rounds as the arithmetic on floats does.           *)
(*                                                                         *)
(* An operator that uses an argument more than once first binds its value  *)
(* (Value({e : v \in {arg}})), so that the argument is evaluated once.     *)
(***************************************************************************)
EXTENDS Integers, Sequences, FiniteSets, TLC

\* ------------------------------------------------------------------------
\* Strings
\* ------------------------------------------------------------------------

\* The element of a one-element set.
Value(S) == CHOOSE v \in S : TRUE

CharAt(s, i) == SubSeq(s, i, i)

SetMin(S) == Value({CHOOSE x \in T : \A y \in T : x <= y : T \in {S}})

SetMax(S) == Value({CHOOSE x \in T : \A y \in T : x >= y : T \in {S}})

UpperChars == "ABCDEFGHIJKLMNOPQRSTUVWXYZ"

LowerChars == "abcdefghijklmnopqrstuvwxyz"

\* The cased letters above ASCII that a string here can hold (code points
\* 192..222 without 215), and their lower-case forms.
UpperLatin == "ÀÁÂÃÄÅÆÇÈÉÊËÌÍÎÏÐÑÒÓÔÕÖØÙÚÛÜÝÞ"

LowerLatin == "àáâãäåæçèéêëìíîïðñòóôõöøùúûüýþ"

UpperToLower ==
    [c \in {CharAt(UpperChars \o UpperLatin, k) : k \in 1..56} |->
        CharAt(LowerChars \o LowerLatin,
               CHOOSE k \in 1..56 : CharAt(UpperChars \o UpperLatin, k) = c)]

\* str.lower() on one character (or on the empty string).
LowerChar(c) ==
    Value({IF v \in DOMAIN UpperToLower THEN UpperToLower[v] ELSE v :
           v \in {c}})

\* str.lower(): every character lowered, the length kept.
RECURSIVE Lower(_)
Lower(s) ==
    Value({IF Len(v) <= 1 THEN LowerChar(v)
           ELSE Lower(SubSeq(v, 1, Len(v) \div 2))
                \o Lower(SubSeq(v, Len(v) \div 2 + 1, Len(v))) :
           v \in {s}})

\* The characters str.split(), str.strip() and the pattern \s treat as
\* whitespace (str.isspace), among the characters a string here can hold
\* (code points up to 255): space, \t, \n, \r, \f, then \x0b, \x1c, \x1d,
\* \x1e, \x1f, \x85 and \xa0 written as the characters themselves.
Whitespace ==
    {" ", "\t", "\n", "\r", "\f", "", "", "", "", "", "", " "}

IsSpace(c) == c \in Whitespace

\* s[i:].startswith(p)
StartsAt(s, i, p) ==
    \E v \in {s}, j \in {i}, q \in {p} :
        /\ j + Len(q) - 1 <= Len(v)
        /\ SubSeq(v, j, j + Len(q) - 1) = q

\* The positions at which p occurs in s.
Occ(s, p) ==
    Value({{i \in 1..(Len(v) - n + 1) : SubSeq(v, i, i + n - 1) = q} :
           v \in {s}, q \in {p}, n \in {Len(p)}})

\* p in s
Contains(s, p) == Occ(s, p) # {}

\* str.count(p): occurrences counted left to right without overlap.
RECURSIVE CountIn(_, _, _)
CountIn(occ, len, from) ==
    Value({Value({IF rest = {} THEN 0
                  ELSE 1 + CountIn(o, len, SetMin(rest) + len) :
                  rest \in {{i \in o : i >= f}}}) :
           o \in {occ}, f \in {from}})

StrCount(s, p) == CountIn(Occ(s, p), Len(p), 1)

\* len(s.split()): the maximal runs of non-whitespace characters.
WordCount(s) ==
    Value({Cardinality({i \in 1..Len(v) :
                           /\ ~IsSpace(CharAt(v, i))
                           /\ (i = 1 \/ IsSpace(CharAt(v, i - 1)))}) :
           v \in {s}})

\* str.strip()
Strip(s) ==
    Value({Value({IF keep = {} THEN ""
                  ELSE SubSeq(v, SetMin(keep), SetMax(keep)) :
                  keep \in {{i \in 1..Len(v) : ~IsSpace(CharAt(v, i))}}}) :
           v \in {s}})

\* ------------------------------------------------------------------------
\* Regular expressions of the source
\* ------------------------------------------------------------------------

SeqToSet(q) == {q[k] : k \in 1..Len(q)}

\* The positions at which some alternative occurs, each with the position
\* after it.
AltEnds(s, alts) ==
    UNION {{<< i, i + Len(a) >> : i \in Occ(s, a)} : a \in SeqToSet(alts)}

\* re.search(r'(a1|a2|..).{lo,hi}(b1|b2|..)', s): some first alternative,
\* then lo..hi characters none of which is a newline, then some second one.
GapSearch(s, firsts, lo, hi, seconds) ==
    \E v \in {s}, A \in {AltEnds(s, firsts)}, B \in {AltEnds(s, seconds)} :
        \E a \in A, b \in B :
            /\ b[1] - a[2] >= lo
            /\ b[1] - a[2] <= hi
            /\ \A k \in a[2]..(b[1] - 1) : CharAt(v, k) # "\n"

\* The first alternative (in pattern order) that matches at position i,
\* 0 when none does.
FirstAltAt(s, alts, i) ==
    Value({IF hit = {} THEN 0 ELSE SetMin(hit) :
           hit \in {{k \in 1..Len(alts) : StartsAt(s, i, alts[k])}}})

\* len(re.findall(r'(a1|a2|..)', s)): leftmost matches without overlap.
RECURSIVE AltCountFrom(_, _, _, _)
AltCountFrom(s, alts, starts, from) ==
    Value({Value({IF rest = {} THEN 0
                  ELSE 1 + AltCountFrom(s, alts, st,
                              SetMin(rest)
                              + Len(alts[FirstAltAt(s, alts, SetMin(rest))])) :
                  rest \in {{i \in st : i >= f}}}) :
           st \in {starts}, f \in {from}})

AltCount(s, alts) ==
    AltCountFrom(s, alts,
                 {i \in 1..Len(s) : FirstAltAt(s, alts, i) # 0}, 1)

\* The length of the run of characters matching [^\.;] that starts at p.
RunLen(s, p) ==
    Value({Value({IF stops = {} THEN Len(v) - q + 1 ELSE SetMin(stops) - q :
                  stops \in {{k \in q..Len(v) :
                                 CharAt(v, k) \in {".", ";"}}}}) :
           v \in {s}, q \in {p}})

\* ------------------------------------------------------------------------
\* Scores: Python floats
\* ------------------------------------------------------------------------

\* A float of the source is an IEEE double, and every operation on floats
\* gives the double nearest to the exact result, a tie going to the even
\* mantissa.  The integers of TLC have 32 bits, a mantissa 53: a natural
\* number is kept as the sequence of its digits in base 2^15, the lowest
\* first and the highest not zero (zero is the empty sequence).

Base == 32768

\* The digits without the zeros at the high end.
RECURSIVE BigNorm(_)
BigNorm(a) ==
    Value({IF v = << >> THEN v
           ELSE IF v[Len(v)] = 0 THEN BigNorm(SubSeq(v, 1, Len(v) - 1))
           ELSE v :
           v \in {a}})

RECURSIVE BigOfInt(_)
BigOfInt(k) ==
    Value({IF v = 0 THEN << >>
           ELSE << v % Base >> \o BigOfInt(v \div Base) :
           v \in {k}})

Limb(a, i) == IF i <= Len(a) THEN a[i] ELSE 0

\* -1, 0 or 1 as a < b, a = b or a > b.
BigCmp(a, b) ==
    Value({IF Len(u) < Len(v) THEN -1
           ELSE IF Len(u) > Len(v) THEN 1
           ELSE Value({IF diff = {} THEN 0
                       ELSE IF u[SetMax(diff)] < v[SetMax(diff)] THEN -1
                       ELSE 1 :
                       diff \in {{i \in 1..Len(u) : u[i] # v[i]}}}) :
           u \in {a}, v \in {b}})

RECURSIVE BigAddFrom(_, _, _, _)
BigAddFrom(a, b, i, carry) ==
    IF i > Len(a) /\ i > Len(b)
    THEN (IF carry = 0 THEN << >> ELSE << carry >>)
    ELSE Value({<< t % Base >> \o BigAddFrom(a, b, i + 1, t \div Base) :
                t \in {Limb(a, i) + Limb(b, i) + carry}})

BigAdd(a, b) == Value({BigAddFrom(u, v, 1, 0) : u \in {a}, v \in {b}})

RECURSIVE BigSubFrom(_, _, _, _)
BigSubFrom(a, b, i, borrow) ==
    IF i > Len(a) THEN << >>
    ELSE Value({<< (t + Base) % Base >>
                \o BigSubFrom(a, b, i + 1, IF t < 0 THEN 1 ELSE 0) :
                t \in {a[i] - Limb(b, i) - borrow}})

\* a - b, for a >= b
BigSub(a, b) ==
    Value({BigNorm(BigSubFrom(u, v, 1, 0)) : u \in {a}, v \in {b}})

RECURSIVE BigMulFrom(_, _, _, _)
BigMulFrom(a, k, i, carry) ==
    IF i > Len(a) THEN (IF carry = 0 THEN << >> ELSE << carry >>)
    ELSE Value({<< t % Base >> \o BigMulFrom(a, k, i + 1, t \div Base) :
                t \in {a[i] * k + carry}})

\* a * k, for 0 <= k < Base
BigMulSmall(a, k) ==
    Value({IF j = 0 THEN << >> ELSE BigMulFrom(u, j, 1, 0) :
           u \in {a}, j \in {k}})

\* a * Base^n
LimbShift(a, n) ==
    Value({IF u = << >> THEN u ELSE [i \in 1..n |-> 0] \o u : u \in {a}})

RECURSIVE BigMul(_, _)
BigMul(a, b) ==
    Value({IF v = << >> THEN << >>
           ELSE BigAdd(BigMulSmall(u, v[1]),
                       LimbShift(BigMul(u, Tail(v)), 1)) :
           u \in {a}, v \in {b}})

RECURSIVE BigDivFrom(_, _, _, _)
BigDivFrom(a, k, i, rem) ==
    IF i = 0 THEN [q |-> << >>, r |-> rem]
    ELSE Value({Value({[q |-> Append(rest.q, cur \div k), r |-> rest.r] :
                       rest \in {BigDivFrom(a, k, i - 1, cur % k)}}) :
                cur \in {rem * Base + a[i]}})

\* a divided by k, for 0 < k <= Base: the quotient and the remainder.  The
\* division runs from the highest digit (a[i], with the remainder left by
\* the digits above it) down.
BigDivSmall(a, k) ==
    Value({Value({[q |-> BigNorm(d.q), r |-> d.r] :
                  d \in {BigDivFrom(u, k, Len(u), 0)}}) :
           u \in {a}})

\* a * 2^n
BigShl(a, n) ==
    Value({LimbShift(BigMulSmall(u, 2 ^ (m % 15)), m \div 15) :
           u \in {a}, m \in {n}})

\* a \div 2^n
BigShr(a, n) ==
    Value({IF m \div 15 >= Len(u) THEN << >>
           ELSE BigDivSmall(SubSeq(u, m \div 15 + 1, Len(u)),
                            2 ^ (m % 15)).q :
           u \in {a}, m \in {n}})

RECURSIVE IntBitLen(_)
IntBitLen(k) == IF k = 0 THEN 0 ELSE 1 + IntBitLen(k \div 2)

\* The number of binary digits of a.
BigBitLen(a) ==
    Value({IF u = << >> THEN 0
           ELSE 15 * (Len(u) - 1) + IntBitLen(u[Len(u)]) :
           u \in {a}})

RECURSIVE IntTrailingZeros(_)
IntTrailingZeros(k) ==
    IF k % 2 = 1 THEN 0 ELSE 1 + IntTrailingZeros(k \div 2)

\* The number of zero binary digits at the low end of a > 0.
RECURSIVE BigTrailingZeros(_)
BigTrailingZeros(a) ==
    Value({IF u[1] = 0 THEN 15 + BigTrailingZeros(Tail(u))
           ELSE IntTrailingZeros(u[1]) :
           u \in {a}})

\* rem divided by d * 2^i, then by d * 2^(i-1), ..., n times, one binary
\* digit of the quotient at a time: the quotient (after the digits q found
\* so far) and the remainder.
RECURSIVE BigDivBits(_, _, _, _, _)
BigDivBits(rem, d, i, n, q) ==
    IF n = 0 THEN [q |-> q, r |-> rem]
    ELSE Value({IF BigCmp(r, s) >= 0
                THEN BigDivBits(BigSub(r, s), d, i - 1, n - 1,
                                BigAdd(BigMulSmall(q, 2), << 1 >>))
                ELSE BigDivBits(r, d, i - 1, n - 1, BigMulSmall(q, 2)) :
                r \in {rem}, s \in {BigShl(d, i)}})

\* The digits of the quotient for 2^i down to 2^0, eight at a time.
RECURSIVE BigDivMod(_, _, _, _)
BigDivMod(rem, d, i, q) ==
    IF i < 0 THEN [q |-> q, r |-> rem]
    ELSE Value({BigDivMod(st.r, d, i - 8, st.q) :
                st \in {BigDivBits(rem, d, i, IF i < 7 THEN i + 1 ELSE 8,
                                   q)}})

\* A double: sign * mant * 2^exp with mant odd and below 2^53, and zero as
\* mant = << >>, exp = 0, sign = 1.  The exponent is not bounded: the
\* scores are far from the largest and the smallest doubles.
Float(sign, mant, exp) == [sign |-> sign, mant |-> mant, exp |-> exp]

FloatZero == Float(1, << >>, 0)

\* mant * 2^exp written with an odd mantissa.
FloatOdd(sign, mant, exp) ==
    Value({IF m = << >> THEN FloatZero
           ELSE Value({Float(sign, BigShr(m, z), exp + z) :
                       z \in {BigTrailingZeros(m)}}) :
           m \in {mant}})

\* a \div 2^n rounded to the nearest, a tie to the even: what is dropped
\* is compared with the half of 2^n.
BigRoundShr(a, n) ==
    Value({Value({Value({
        IF half > 0 \/ (half = 0 /\ q # << >> /\ q[1] % 2 = 1)
        THEN BigAdd(q, << 1 >>)
        ELSE q :
        half \in {BigCmp(BigSub(u, BigShl(q, m)),
                         BigShl(<< 1 >>, m - 1))}}) :
        q \in {BigShr(u, m)}}) :
        u \in {a}, m \in {n}})

\* The double nearest to sign * mant * 2^exp, a tie to the even mantissa.
FloatRound(sign, mant, exp) ==
    Value({IF len <= 53 THEN FloatOdd(sign, mant, exp)
           ELSE FloatOdd(sign, BigRoundShr(mant, len - 53), exp + len - 53) :
           len \in {BigBitLen(mant)}})

\* float(k)
FloatOfInt(k) ==
    Value({FloatOdd(IF v < 0 THEN -1 ELSE 1,
                    BigOfInt(IF v < 0 THEN -v ELSE v), 0) :
           v \in {k}})

FloatNeg(x) == Value({Float(IF v.mant = << >> THEN 1 ELSE -v.sign,
                            v.mant, v.exp) : v \in {x}})

\* x + y
FloatAdd(x, y) ==
    Value({
        IF u.mant = << >> THEN v
        ELSE IF v.mant = << >> THEN u
        ELSE Value({Value({
            IF u.sign = v.sign THEN FloatRound(u.sign, BigAdd(a, b), e)
            ELSE IF BigCmp(a, b) > 0 THEN FloatRound(u.sign, BigSub(a, b), e)
            ELSE IF BigCmp(a, b) < 0 THEN FloatRound(v.sign, BigSub(b, a), e)
            ELSE FloatZero :
            a \in {BigShl(u.mant, u.exp - e)},
            b \in {BigShl(v.mant, v.exp - e)}}) :
            e \in {IF u.exp < v.exp THEN u.exp ELSE v.exp}}) :
        u \in {x}, v \in {y}})

\* x - y
FloatSub(x, y) == FloatAdd(x, FloatNeg(y))

\* x * y
FloatMul(x, y) ==
    Value({IF u.mant = << >> \/ v.mant = << >> THEN FloatZero
           ELSE FloatRound(u.sign * v.sign, BigMul(u.mant, v.mant),
                           u.exp + v.exp) :
           u \in {x}, v \in {y}})

\* x / y, for y not zero: 56 or 57 binary digits of the quotient of the
\* mantissas, and one more digit that says whether a remainder is left,
\* so that the rounding sees on which side of a tie the quotient lies.
FloatDiv(x, y) ==
    Value({
        IF u.mant = << >> THEN FloatZero
        ELSE IF v.mant = << 1 >>
        THEN Float(u.sign * v.sign, u.mant, u.exp - v.exp)
        ELSE Value({Value({
            FloatRound(u.sign * v.sign,
                       BigAdd(BigMulSmall(d.q, 2),
                              IF d.r = << >> THEN << >> ELSE << 1 >>),
                       u.exp - v.exp - k - 1) :
            d \in {BigDivMod(BigShl(u.mant, k), v.mant, 56, << >>)}}) :
            k \in {56 + BigBitLen(v.mant) - BigBitLen(u.mant)}}) :
        u \in {x}, v \in {y}})

\* x < y
FloatLess(x, y) == FloatSub(x, y).sign = -1

\* x > k and x < k for an int k
FloatGtInt(x, k) == FloatLess(FloatOfInt(k), x)

FloatLtInt(x, k) == FloatLess(x, FloatOfInt(k))

\* ------------------------------------------------------------------------
\* FedMonitor.__init__: the keyword list
\* ------------------------------------------------------------------------

tightening_keywords ==
    << "inflation risk", "price stability", "overheating", "tighter",
       "hawkish", "raise rates", "rate hike", "restrictive policy",
       "combat inflation", "reduce balance sheet", "quantitative tightening",
       "QT", "upside risk", "above target", "elevated inflation",
       "inflation concern", "inflation remains elevated",
       "inflation has not progressed", "tight labor market",
       "upward pressure on prices", "higher policy rate",
       "increased the target range", "firm policy stance",
       "higher for longer", "will need to remain restrictive",
       "further tightening", "inflation risks", "unacceptably high",
       "persistent inflationary pressures", "further policy firming",
       "commitment to restoring price stability" >>

\* keyword.lower() of every keyword.
LowerKeywords ==
    [k \in 1..Len(tightening_keywords) |-> Lower(tightening_keywords[k])]

\* ------------------------------------------------------------------------
\* FedMonitor.extract_policy_decisions
\* ------------------------------------------------------------------------

RatePrefixes ==
    << "decided to", "committee will", "has decided to", "agreed to",
       "decided", "appropriate to",
       "increase the target range for the federal funds rate to",
       "decided that the", "decided to maintain", "will maintain" >>

RateNouns ==
    << "federal funds rate", "policy rate", "interest rate",
       "interest rates", "basis points", "percentage point",
       "target range" >>

BalanceSheetTriggers ==
    << "balance sheet", "securities holdings", "asset purchases",
       "quantitative", "maturity extension", "reinvestment", "reinvesting",
       "redemptions" >>

GuidanceTriggers ==
    << "future adjustments", "future increases", "subsequent meeting",
       "coming months", "going forward", "remain vigilant",
       "remains highly attentive", "future policy",
       "will be prepared to adjust", "the committee anticipates",
       "the committee expects", "the committee is strongly committed",
       "appropriate path", "policy path", "outlook",
       "will take into account", "in determining" >>

\* The lengths k >= 1 of a first group [^\.;]+ starting at p after which a
\* rate noun follows.
RateGroupLens(low, p) ==
    Value({{k \in 1..RunLen(low, q) : FirstAltAt(low, RateNouns, q + k) # 0} :
           q \in {p}})

\* The prefixes (by index) with which the rate pattern matches at i.
RatePrefixesAt(low, i) ==
    Value({{a \in 1..Len(RatePrefixes) :
               /\ StartsAt(low, j, RatePrefixes[a])
               /\ RateGroupLens(low, j + Len(RatePrefixes[a])) # {}} :
           j \in {i}})

\* The match of the rate pattern at i, as the regex engine finds it: the
\* first prefix in pattern order, the longest first group, the first noun in
\* pattern order, the longest second group [^\.;]*.
RateMatchAt(text, low, i) ==
    Value({Value({Value({Value({
        [g1 |-> SubSeq(text, p, p + k - 1),
         g2 |-> SubSeq(text, q, q + RunLen(low, q) - 1),
         end |-> q + RunLen(low, q)] :
        q \in {p + k + Len(RateNouns[FirstAltAt(low, RateNouns, p + k)])}}) :
        k \in {SetMax(RateGroupLens(low, p))}}) :
        p \in {i + Len(RatePrefixes[a])}}) :
        a \in {SetMin(RatePrefixesAt(low, i))}})

RECURSIVE RateDecisionsFrom(_, _, _, _)
RateDecisionsFrom(text, low, starts, from) ==
    Value({Value({
        IF rest = {} THEN << >>
        ELSE Value({Value({
                 (IF Len(decision) > 10
                  THEN << "Rate Decision: " \o decision >> ELSE << >>)
                 \o RateDecisionsFrom(text, low, st, m.end) :
                 decision \in {Strip(m.g1 \o m.g2)}}) :
                 m \in {RateMatchAt(text, low, SetMin(rest))}}) :
        rest \in {{i \in st : i >= f}}}) :
        st \in {starts}, f \in {from}})

RateDecisions(text, low) ==
    RateDecisionsFrom(text, low,
        {i \in 1..Len(low) :
            /\ \E a \in 1..Len(RatePrefixes) : StartsAt(low, i, RatePrefixes[a])
            /\ RatePrefixesAt(low, i) # {}}, 1)

\* The triggers (by index) after which at least lo characters [^\.;] follow.
SpanTriggersAt(low, triggers, lo, i) ==
    Value({{a \in 1..Len(triggers) :
               /\ StartsAt(low, j, triggers[a])
               /\ RunLen(low, j + Len(triggers[a])) >= lo} :
           j \in {i}})

\* re.findall(r'(?:t1|t2|..)([^\.;]{lo,hi})', text, re.IGNORECASE), each
\* group longer than 15 characters labelled and stripped.
RECURSIVE SpanDecisionsFrom(_, _, _, _, _, _, _, _)
SpanDecisionsFrom(text, low, triggers, lo, hi, label, starts, from) ==
    Value({Value({
        IF rest = {} THEN << >>
        ELSE Value({Value({Value({
                 (IF Len(match) > 15
                  THEN << label \o Strip(match) >> ELSE << >>)
                 \o SpanDecisionsFrom(text, low, triggers, lo, hi, label,
                                      st, p + Len(match)) :
                 match \in {SubSeq(text, p, p + (IF run < hi THEN run ELSE hi) - 1)}}) :
                 run \in {RunLen(low, p)}}) :
                 p \in {SetMin(rest)
                        + Len(triggers[SetMin(SpanTriggersAt(low, triggers, lo,
                                                             SetMin(rest)))])}}) :
        rest \in {{i \in st : i >= f}}}) :
        st \in {starts}, f \in {from}})

SpanDecisions(text, low, triggers, lo, hi, label) ==
    SpanDecisionsFrom(text, low, triggers, lo, hi, label,
        {i \in 1..Len(low) : SpanTriggersAt(low, triggers, lo, i) # {}}, 1)

extract_policy_decisions(text) ==
    Value({Value({
        RateDecisions(t, low)
        \o SpanDecisions(t, low, BalanceSheetTriggers, 10, 150,
                         "Balance Sheet: ")
        \o SpanDecisions(t, low, GuidanceTriggers, 10, 200,
                         "Forward Guidance: ") :
        low \in {Lower(t)}}) :
        t \in {text}})

\* ------------------------------------------------------------------------
\* FedMonitor.analyze_tightening_signals
\* ------------------------------------------------------------------------

RatePolicyNouns ==
    << "federal funds rate", "interest rate", "target range", "policy rate" >>

\* The sum over the keywords of text_lower.count(keyword.lower()).
RECURSIVE KeywordCount(_, _)
KeywordCount(text_lower, k) ==
    IF k = 0 THEN 0
    ELSE StrCount(text_lower, LowerKeywords[k])
         + KeywordCount(text_lower, k - 1)

\* The keywords found, in the order of the list.
FoundKeywords(text_lower) ==
    Value({[k \in 1..Cardinality(found) |->
               tightening_keywords[
                   CHOOSE i \in found :
                       Cardinality({j \in found : j < i}) = k - 1]] :
           found \in {{i \in 1..Len(tightening_keywords) :
                          Contains(text_lower, LowerKeywords[i])}}})

\* Mutation of Clamp: the score is returned as computed.
ClampMissing(base_score) == base_score

\* min(100, max(0, base_score)): the int 100 or 0 where the score lies
\* beyond it.
Clamp(base_score) ==
    Value({IF FloatGtInt(b, 100) THEN FloatOfInt(100)
           ELSE IF FloatLtInt(b, 0) THEN FloatOfInt(0)
           ELSE b :
           b \in {base_score}})

\* max(1, text_length / 100): the quotient is a float, the int 1 is kept
\* unless the quotient is greater.
Hundreds(text_length) ==
    Value({IF FloatGtInt(h, 1) THEN h ELSE FloatOfInt(1) :
           h \in {FloatDiv(FloatOfInt(text_length), FloatOfInt(100))}})

\* (tightening_count / max(1, text_length / 100)) * 50
Density(tightening_count, text_length) ==
    FloatMul(FloatDiv(FloatOfInt(tightening_count), Hundreds(text_length)),
             FloatOfInt(50))

\* base_score += k when the signal is found
Bonus(base_score, signal, k) ==
    IF signal THEN FloatAdd(base_score, FloatOfInt(k)) ELSE base_score

\* The score of a lowered text from the signals found in it: the bonuses
\* are added one after the other, in the order of the source.
Score(text_lower, direction_change, comparative_tightening, qt_mentions, rate_hike, easing_language) ==
    Clamp(Bonus(Bonus(Bonus(Bonus(
        Density(KeywordCount(text_lower, Len(tightening_keywords))
                + (IF comparative_tightening THEN 2 ELSE 0)
                + qt_mentions
                + (IF rate_hike THEN 3 ELSE 0),
                WordCount(text_lower)),
        direction_change, 15),
        comparative_tightening, 20),
        rate_hike, 10),
        easing_language, -20))

analyze_tightening_signals(text) ==
    IF text = ""
    THEN [score |-> FloatOfInt(0), keywords |-> << >>, decisions |-> << >>]
    ELSE Value({
        [score |->
            Value({Score(text_lower, direction_change, comparative_tightening,
                         qt_mentions, rate_hike, easing_language) :
                direction_change \in
                    {GapSearch(text_lower, << "shift", "change", "pivot" >>,
                               1, 30, << "stance", "policy", "direction" >>)},
                comparative_tightening \in
                    {GapSearch(text_lower,
                               << "more", "increased", "stronger", "further" >>,
                               1, 20,
                               << "restrictive", "hawkish", "tighten" >>)},
                qt_mentions \in
                    {AltCount(text_lower,
                              << "balance sheet reduction",
                                 "quantitative tightening", "qt", "runoff",
                                 "run-off" >>)},
                rate_hike \in
                    {GapSearch(text_lower,
                               << "raise", "increase", "raising",
                                  "increasing" >>, 1, 30, RatePolicyNouns)},
                easing_language \in
                    {GapSearch(text_lower,
                               << "lower", "decrease", "cut", "reduce",
                                  "pause", "hold", "reduction" >>,
                               1, 30, RatePolicyNouns)}}),
         keywords |-> FoundKeywords(text_lower),
         decisions |-> extract_policy_decisions(text)] :
        text_lower \in {Lower(text)}})

\* ------------------------------------------------------------------------
\* Number formatting and string order
\* ------------------------------------------------------------------------

Digits == "0123456789"

\* str(k) for k >= 0
RECURSIVE IntStr(_)
IntStr(k) ==
    Value({IF v < 10 THEN CharAt(Digits, v + 1)
           ELSE IntStr(v \div 10) \o CharAt(Digits, (v % 10) + 1) :
           v \in {k}})

\* str(a) for a natural number a
RECURSIVE BigStr(_)
BigStr(a) ==
    Value({IF Len(u) <= 1 THEN IntStr(Limb(u, 1))
           ELSE Value({(IF d.q = << >> THEN "" ELSE BigStr(d.q))
                       \o CharAt(Digits, d.r + 1) :
                       d \in {BigDivSmall(u, 10)}}) :
           u \in {a}})

\* The tenths of |x| rounded to the nearest, a tie to the even.
Tenths(x) ==
    Value({IF v.exp >= 0 THEN BigShl(BigMulSmall(v.mant, 10), v.exp)
           ELSE BigRoundShr(BigMulSmall(v.mant, 10), -v.exp) :
           v \in {x}})

\* f"{x:.1f}": the decimal with one place that is nearest to the value
\* the float holds, a tie rounded to the even tenth; a negative float keeps
\* its sign when it rounds to zero.
FormatOneDecimal(x) ==
    Value({Value({
        (IF v.sign < 0 THEN "-" ELSE "")
        \o (IF t.q = << >> THEN "0" ELSE BigStr(t.q))
        \o "." \o CharAt(Digits, t.r + 1) :
        t \in {BigDivSmall(Tenths(v), 10)}}) :
        v \in {x}})

\* The ASCII characters in code order, the control characters other than
\* \t, \n, \f, \r and the backquote left out: the strings compared are the
\* dates of statements, made of digits, "-", "T", ":" and ".".
Ascii ==
    "\t\n\f\r !\"#$%&'()*+,-./0123456789:;<=>?@ABCDEFGHIJKLMNOPQRSTUVWXYZ[\\]^_abcdefghijklmnopqrstuvwxyz{|}~"

AsciiCode ==
    [c \in {CharAt(Ascii, k) : k \in 1..Len(Ascii)} |->
        CHOOSE k \in 1..Len(Ascii) : CharAt(Ascii, k) = c]

CharCode(c) == AsciiCode[c]

\* a < b on Python strings: the order of the first differing character, a
\* proper prefix first.
StrLess(a, b) ==
    \E u \in {a}, v \in {b} :
        \E diff \in {{k \in 1..(IF Len(u) < Len(v) THEN Len(u) ELSE Len(v)) :
                         CharAt(u, k) # CharAt(v, k)}} :
            IF diff = {} THEN Len(u) < Len(v)
            ELSE \E k \in {SetMin(diff)} :
                    CharCode(CharAt(u, k)) < CharCode(CharAt(v, k))

\* ------------------------------------------------------------------------
\* FedMonitor.compare_to_previous
\* ------------------------------------------------------------------------

\* Python's None.
None == [none |-> TRUE]

\* not v, for v None or a dict: None and the empty dict are false.
Falsy(v) == \E u \in {v} : DOMAIN u = {} \/ u = None

\* statement.get('tightening_score', 0)
ScoreOf(statement) ==
    IF "tightening_score" \in DOMAIN statement
    THEN statement.tightening_score
    ELSE FloatOfInt(0)

\* Mutation of compare_to_previous: the bounds 15 and -15 belong to the
\* significant classes (>= 15, <= -15).
CompareInclusive(current_statement, previous_statement) ==
    IF Falsy(previous_statement)
    THEN "No previous statement for comparison"
    ELSE Value({
        IF ~FloatLtInt(difference, 15)
        THEN "SIGNIFICANT TIGHTENING SHIFT: +"
             \o FormatOneDecimal(difference) \o " points"
        ELSE IF FloatGtInt(difference, 5)
        THEN "Moderate tightening shift: +"
             \o FormatOneDecimal(difference) \o " points"
        ELSE IF ~FloatGtInt(difference, -15)
        THEN "SIGNIFICANT LOOSENING SHIFT: "
             \o FormatOneDecimal(difference) \o " points"
        ELSE IF FloatLtInt(difference, -5)
        THEN "Moderate loosening shift: "
             \o FormatOneDecimal(difference) \o " points"
        ELSE "No significant policy shift: "
             \o FormatOneDecimal(difference) \o " points" :
        difference \in {FloatSub(ScoreOf(current_statement),
                                 ScoreOf(previous_statement))}})

\* Mutation of compare_to_previous: the moderate tightening class is
\* written in capitals, like the significant one.
CompareCapitals(current_statement, previous_statement) ==
    IF Falsy(previous_statement)
    THEN "No previous statement for comparison"
    ELSE Value({
        IF FloatGtInt(difference, 15)
        THEN "SIGNIFICANT TIGHTENING SHIFT: +"
             \o FormatOneDecimal(difference) \o " points"
        ELSE IF FloatGtInt(difference, 5)
        THEN "MODERATE TIGHTENING SHIFT: +"
             \o FormatOneDecimal(difference) \o " points"
        ELSE IF FloatLtInt(difference, -15)
        THEN "SIGNIFICANT LOOSENING SHIFT: "
             \o FormatOneDecimal(difference) \o " points"
        ELSE IF FloatLtInt(difference, -5)
        THEN "Moderate loosening shift: "
             \o FormatOneDecimal(difference) \o " points"
        ELSE "No significant policy shift: "
             \o FormatOneDecimal(difference) \o " points" :
        difference \in {FloatSub(ScoreOf(current_statement),
                                 ScoreOf(previous_statement))}})

compare_to_previous(current_statement, previous_statement) ==
    IF Falsy(previous_statement)
    THEN "No previous statement for comparison"
    ELSE Value({
        IF FloatGtInt(difference, 15)
        THEN "SIGNIFICANT TIGHTENING SHIFT: +"
             \o FormatOneDecimal(difference) \o " points"
        ELSE IF FloatGtInt(difference, 5)
        THEN "Moderate tightening shift: +"
             \o FormatOneDecimal(difference) \o " points"
        ELSE IF FloatLtInt(difference, -15)
        THEN "SIGNIFICANT LOOSENING SHIFT: "
             \o FormatOneDecimal(difference) \o " points"
        ELSE IF FloatLtInt(difference, -5)
        THEN "Moderate loosening shift: "
             \o FormatOneDecimal(difference) \o " points"
        ELSE "No significant policy shift: "
             \o FormatOneDecimal(difference) \o " points" :
        difference \in {FloatSub(ScoreOf(current_statement),
                                 ScoreOf(previous_statement))}})

\* ------------------------------------------------------------------------
\* FedMonitor.generate_summary
\* ------------------------------------------------------------------------

MonthNames ==
    << "January", "February", "March", "April", "May", "June", "July",
       "August", "September", "October", "November", "December" >>

DigitValue(c) ==
    Value({(CHOOSE k \in 1..10 : CharAt(Digits, k) = v) - 1 : v \in {c}})

\* datetime.fromisoformat(date).strftime('%B %d, %Y') on 'YYYY-MM-DDT00:00:00':
\* the day keeps its two digits, the year is printed without leading zeros.
FormatDate(date) ==
    Value({MonthNames[DigitValue(CharAt(v, 6)) * 10
                      + DigitValue(CharAt(v, 7))]
           \o " " \o SubSeq(v, 9, 10) \o ", "
           \o IntStr(DigitValue(CharAt(v, 1)) * 1000
                     + DigitValue(CharAt(v, 2)) * 100
                     + DigitValue(CharAt(v, 3)) * 10
                     + DigitValue(CharAt(v, 4))) :
           v \in {date}})

\* re.split(r'(?<=[.!?])\s+', text): the text is cut at every run of
\* whitespace that starts right after '.', '!' or '?'.
SentenceCuts(text) ==
    {i \in 2..Len(text) :
        /\ IsSpace(CharAt(text, i))
        /\ CharAt(text, i - 1) \in {".", "!", "?"}}

\* The first position after the whitespace run that starts at i.
RunEnd(text, i) ==
    Value({IF rest = {} THEN Len(text) + 1 ELSE SetMin(rest) :
           rest \in {{k \in i..Len(text) : ~IsSpace(CharAt(text, k))}}})

RECURSIVE SentencesFrom(_, _, _)
SentencesFrom(text, cuts, from) ==
    Value({Value({
        IF rest = {} THEN << SubSeq(text, f, Len(text)) >>
        ELSE << SubSeq(text, f, SetMin(rest) - 1) >>
             \o SentencesFrom(text, c, RunEnd(text, SetMin(rest))) :
        rest \in {{i \in c : i >= f}}}) :
        c \in {cuts}, f \in {from}})

Sentences(text) ==
    Value({SentencesFrom(t, SentenceCuts(t), 1) : t \in {text}})

interest_phrases ==
    tightening_keywords
    \o << "federal funds rate", "monetary policy", "interest rate",
          "target range" >>

LowerPhrases ==
    [k \in 1..Len(interest_phrases) |-> Lower(interest_phrases[k])]

IsRelevant(sentence) ==
    \E low \in {Lower(sentence)} :
        \E k \in 1..Len(LowerPhrases) : Contains(low, LowerPhrases[k])

\* The stripped relevant sentences, each once, in order of appearance.
RECURSIVE RelevantFrom(_, _, _)
RelevantFrom(sentences, k, relevant_sentences) ==
    Value({
        IF j > Len(sentences) THEN rel
        ELSE Value({
            RelevantFrom(sentences, j + 1,
                IF /\ IsRelevant(sentences[j])
                   /\ clean_sentence # ""
                   /\ clean_sentence \notin SeqToSet(rel)
                THEN Append(rel, clean_sentence)
                ELSE rel) :
            clean_sentence \in {Strip(sentences[j])}}) :
        j \in {k}, rel \in {relevant_sentences}})

RelevantSentences(text) ==
    Value({RelevantFrom(sentences, 1, << >>) :
           sentences \in {Sentences(text)}})

\* "".join(prefix(k) + lines[k] + "\n")
RECURSIVE BulletLines(_, _)
BulletLines(lines, k) ==
    Value({IF j > Len(lines) THEN ""
           ELSE "- " \o lines[j] \o "\n" \o BulletLines(lines, j + 1) :
           j \in {k}})

RECURSIVE NumberedLines(_, _)
NumberedLines(lines, k) ==
    Value({IF j > Len(lines) THEN ""
           ELSE IntStr(j) \o ". " \o lines[j] \o "\n"
                \o NumberedLines(lines, j + 1) :
           j \in {k}})

FirstFive(q) ==
    Value({IF Len(v) > 5 THEN SubSeq(v, 1, 5) ELSE v : v \in {q}})

generate_summary(statement, comparison_result) ==
    Value({Value({
        "Date: " \o FormatDate(st.date) \o "\n"
        \o "Tightening Score: "
        \o FormatOneDecimal(st.tightening_score) \o "/100\n"
        \o "Policy Shift: " \o comparison_result \o "\n\n"
        \o (IF /\ "policy_decisions" \in DOMAIN st
               /\ st.policy_decisions # << >>
            THEN "Key Policy Decisions:\n"
                 \o BulletLines(st.policy_decisions, 1) \o "\n"
            ELSE "")
        \o "Tightening Signals:\n"
        \o BulletLines(st.tightening_keywords, 1)
        \o "\nRelevant Excerpts:\n"
        \o NumberedLines(relevant_sentences, 1)
        \o "\nFull statement: " \o st.url :
        relevant_sentences \in {FirstFive(RelevantSentences(st.text))}}) :
        st \in {statement}})

\* ------------------------------------------------------------------------
\* The documents the monitor can discover
\* ------------------------------------------------------------------------

\* At most MaxDocs statements are extracted in one cycle.
MaxDocs == 2

\* A cycle starts only while the stored history and the extracted
\* statements together hold at most MaxHist records.
MaxHist == 3

\* date.isoformat() of the release dates: three successive meetings.
Dates ==
    {"2024-01-15T00:00:00", "2024-02-15T00:00:00", "2024-03-15T00:00:00"}

Boiler == "Economic activity has continued to expand at a solid pace. "

Boiler6 == Boiler \o Boiler \o Boiler \o Boiler \o Boiler \o Boiler

\* No tightening signal: score 0.
TextNeutral ==
    Boiler \o "Job gains have remained strong and unemployment has stayed low."

\* A change of stance and nothing else: score 15.
TextShift ==
    "Participants noted a change in the stance of communications. " \o Boiler

\* A rate increase, in more than 100 words and more than 1000 characters.
TextHike ==
    "The Committee decided to raise the target range for the federal funds rate to 5 percent. "
    \o Boiler6 \o Boiler6 \o Boiler6

Texts == {TextNeutral, TextShift, TextHike}

TextKey(text) ==
    IF text = TextNeutral THEN "a" ELSE IF text = TextShift THEN "b" ELSE "c"

\* The url of the release of a date with the given text.
UrlOf(date, text) ==
    "https://www.federalreserve.gov/newsevents/pressreleases/monetary"
    \o SubSeq(date, 1, 4) \o SubSeq(date, 6, 7) \o SubSeq(date, 9, 10)
    \o TextKey(text) \o ".htm"

\* What extract_statements can return for one link: {date, text, url}.
Statements ==
    {[date |-> d, text |-> t, url |-> UrlOf(d, t)] : d \in Dates, t \in Texts}

StatementLists == UNION {[1..n -> Statements] : n \in 0..MaxDocs}

\* analyze_tightening_signals on the texts of the documents, computed once.
Analysis == [t \in Texts |-> analyze_tightening_signals(t)]

\* ------------------------------------------------------------------------
\* The date pattern and strptime
\* ------------------------------------------------------------------------

UpperSet == {CharAt(UpperChars, k) : k \in 1..26}

LowerSet == {CharAt(LowerChars, k) : k \in 1..26}

DigitSet == {CharAt(Digits, k) : k \in 1..10}

\* The length of the longest run of characters of C that starts at p.
RECURSIVE Span(_, _, _)
Span(s, p, C) ==
    Value({IF q > Len(v) \/ CharAt(v, q) \notin C THEN 0
           ELSE 1 + Span(v, q + 1, C) :
           v \in {s}, q \in {p}})

\* int() of a string of digits
RECURSIVE StrInt(_)
StrInt(s) ==
    Value({IF v = "" THEN 0
           ELSE 10 * StrInt(SubSeq(v, 1, Len(v) - 1))
                + DigitValue(CharAt(v, Len(v))) :
           v \in {s}})

\* r'([A-Z][a-z]+)\s+(\d{1,2}),?\s+(\d{4})' matched at position i: the three
\* groups, << >> when the pattern does not match there.  Every repetition
\* is followed by a character it cannot consume, so only its longest match
\* can succeed.
DateMatchAt(s, i) ==
    Value({
        LET p1 == p + 1 + Span(v, p + 1, LowerSet)
            p2 == p1 + Span(v, p1, Whitespace)
            p3 == p2 + Span(v, p2, DigitSet)
            p4 == IF StartsAt(v, p3, ",") THEN p3 + 1 ELSE p3
            p5 == p4 + Span(v, p4, Whitespace)
        IN  IF /\ p <= Len(v)
               /\ CharAt(v, p) \in UpperSet
               /\ p1 > p + 1
               /\ p2 > p1
               /\ p3 - p2 \in {1, 2}
               /\ p5 > p4
               /\ Span(v, p5, DigitSet) >= 4
            THEN << SubSeq(v, p, p1 - 1), SubSeq(v, p2, p3 - 1),
                    SubSeq(v, p5, p5 + 3) >>
            ELSE << >> :
        v \in {s}, p \in {i}})

\* re.search(pattern, s).groups(), and re.findall(pattern, s)[0]: the
\* groups of the leftmost match, << >> when there is none.
DateSearch(s) ==
    Value({Value({IF hits = {} THEN << >> ELSE DateMatchAt(v, SetMin(hits)) :
                  hits \in {{i \in 1..Len(v) :
                                /\ CharAt(v, i) \in UpperSet
                                /\ DateMatchAt(v, i) # << >>}}}) :
           v \in {s}})

\* An exception raised by a call.
Raised == [raised |-> TRUE]

IsLeap(year) == \E y \in {year} : y % 4 = 0 /\ (y % 100 # 0 \/ y % 400 = 0)

DaysIn(month, year) ==
    IF month = 2 THEN (IF IsLeap(year) THEN 29 ELSE 28)
    ELSE IF month \in {4, 6, 9, 11} THEN 30 ELSE 31

\* datetime.datetime(year, month, day), which raises for a date that the
\* calendar does not have.
DateTime(year, month, day) ==
    IF year >= 1 /\ day >= 1 /\ day <= DaysIn(month, year)
    THEN [year |-> year, month |-> month, day |-> day]
    ELSE Raised

\* datetime.datetime.strptime(s, '%B %d, %Y'): a full month name in any
\* case, whitespace, a day 1..31 of one or two digits, a comma, whitespace,
\* a year of four digits, and nothing after it; otherwise ValueError.
Strptime(s) ==
    Value({
        LET months == {k \in 1..12 : StartsAt(low, 1, Lower(MonthNames[k]))}
            month == Value(months)
            p1 == Len(MonthNames[month]) + 1
            p2 == p1 + Span(v, p1, Whitespace)
            p3 == p2 + Span(v, p2, DigitSet)
            day == StrInt(SubSeq(v, p2, p3 - 1))
            p4 == p3 + 1
            p5 == p4 + Span(v, p4, Whitespace)
        IN  IF /\ months # {}
               /\ p2 > p1
               /\ p3 - p2 \in {1, 2}
               /\ day >= 1
               /\ day <= 31
               /\ StartsAt(v, p3, ",")
               /\ p5 > p4
               /\ Span(v, p5, DigitSet) = 4
               /\ Len(v) = p5 + 3
            THEN DateTime(StrInt(SubSeq(v, p5, p5 + 3)), month, day)
            ELSE Raised :
        v \in {s}, low \in {Lower(s)}})

\* f"{k:02d}" and f"{k:04d}"
ZeroPad(k, width) ==
    Value({SubSeq("0000", 1, width - Len(d)) \o d : d \in {IntStr(k)}})

\* datetime.isoformat() of a date at midnight
isoformat(date) ==
    ZeroPad(date.year, 4) \o "-" \o ZeroPad(date.month, 2) \o "-"
    \o ZeroPad(date.day, 2) \o "T00:00:00"

\* ------------------------------------------------------------------------
\* Fetched documents
\* ------------------------------------------------------------------------

\* A parsed document (the soup) is a tree, as the parser builds it.  A tag
\* has a name, its class and id attributes ("" when it has none) and its
\* contents: tags, strings and comments in document order.  The document
\* is itself a tag, named "[document]", whose contents are the top level of
\* the page: the parser adds no html, head or body that the page does not
\* hold.  A comment stands for every string that is no text of the page (a
\* comment, a doctype declaration).
Tag(name, class, id, contents) ==
    [name |-> name, class |-> class, id |-> id, contents |-> contents]

NavigableString(text) == [string |-> text]

Comment(text) == [comment |-> text]

BeautifulSoup(contents) == Tag("[document]", "", "", contents)

IsTag(node) == "name" \in DOMAIN node

IsText(node) == "string" \in DOMAIN node

\* The characters of a string or of a comment.
Characters(node) == IF IsText(node) THEN node.string ELSE node.comment

\* The nodes below a parent in document order (a tag, then what it
\* contains, then what follows it), each with the tag it lies in.
RECURSIVE Walk(_, _)
Walk(contents, parent) ==
    Value({IF c = << >> THEN << >>
           ELSE << [node |-> c[1], parent |-> parent] >>
                \o (IF IsTag(c[1]) THEN Walk(c[1].contents, c[1]) ELSE << >>)
                \o Walk(Tail(c), parent) :
           c \in {contents}})

\* tag.descendants
descendants(tag) == Walk(tag.contents, tag)

NodesOf(found) == [k \in 1..Len(found) |-> found[k].node]

\* soup.find(...): the first of the nodes found, None when there is none.
\* A tag that is found counts as true whatever it contains.
First(found) == IF found = << >> THEN None ELSE found[1]

\* separator.join(strings)
RECURSIVE Join(_, _)
Join(strings, separator) ==
    Value({IF Len(q) = 0 THEN ""
           ELSE IF Len(q) = 1 THEN q[1]
           ELSE q[1] \o separator \o Join(Tail(q), separator) :
           q \in {strings}})

\* str.split(): the maximal runs of non-whitespace characters, in order.
Split(s) ==
    Value({[k \in 1..Cardinality(starts) |->
              SubSeq(v,
                     CHOOSE i \in starts :
                         Cardinality({j \in starts : j <= i}) = k,
                     CHOOSE i \in ends :
                         Cardinality({j \in ends : j <= i}) = k)] :
           v \in {s},
           starts \in {{i \in 1..Len(s) :
                          /\ ~IsSpace(CharAt(s, i))
                          /\ (i = 1 \/ IsSpace(CharAt(s, i - 1)))}},
           ends \in {{i \in 1..Len(s) :
                        /\ ~IsSpace(CharAt(s, i))
                        /\ (i = Len(s) \/ IsSpace(CharAt(s, i + 1)))}}})

\* find(..., class_=wanted) on a tag with this class attribute: the
\* attribute is a list of tokens; one of them is the wanted string, or the
\* tokens joined by a space are.
ClassMatches(class, wanted) ==
    \E tokens \in {Split(class)} :
        \/ wanted \in SeqToSet(tokens)
        \/ (tokens # << >> /\ Join(tokens, " ") = wanted)

\* The tags below a tag, in document order.
Tags(tag) ==
    NodesOf(SelectSeq(descendants(tag), LAMBDA d : IsTag(d.node)))

\* tag.find_all(names): the tags below the tag that bear one of the names,
\* in document order.
find_all(tag, names) == SelectSeq(Tags(tag), LAMBDA t : t.name \in names)

\* soup.find('div', class_=class): the first div of that class.
FindDiv(soup, class) ==
    First(SelectSeq(find_all(soup, {"div"}),
                    LAMBDA t : ClassMatches(t.class, class)))

\* The strings of the text below a tag, in document order; comments are
\* no text.
TextsOf(tag) ==
    Value({[k \in 1..Len(q) |-> q[k].node.string] :
           q \in {SelectSeq(descendants(tag), LAMBDA d : IsText(d.node))}})

\* tag.get_text() and tag.text: the strings below the tag, concatenated.
get_text(tag) == Join(TextsOf(tag), "")

\* p.get_text().strip() of each tag
StrippedTextsOf(tags) == [k \in 1..Len(tags) |-> Strip(get_text(tags[k]))]

\* get_text(separator=' ', strip=True): the strings below the tag
\* stripped, the empty ones dropped, the rest joined by a space
get_text_stripped(tag) ==
    Value({Join(SelectSeq([k \in 1..Len(q) |-> Strip(q[k])],
                          LAMBDA s : s # ""), " ") :
           q \in {TextsOf(tag)}})

\* ------------------------------------------------------------------------
\* FedMonitor._extract_date
\* ------------------------------------------------------------------------

\* re.search of the date pattern in a text, then strptime of the rebuilt
\* "Month D, YYYY": None without a match, Raised when strptime raises.
SearchDate(text) ==
    Value({IF m = << >> THEN None
           ELSE Strptime(m[1] \o " " \o m[2] \o ", " \o m[3]) :
           m \in {DateSearch(text)}})

\* The article time element: a text that strptime rejects is passed over.
ArticleTime(soup) ==
    Value({IF date_elem # None /\ Strip(get_text(date_elem)) # ""
           THEN Value({IF date = Raised THEN None ELSE date :
                       date \in {Strptime(Strip(get_text(date_elem)))}})
           ELSE None :
           date_elem \in {FindDiv(soup, "article__time")}})

\* The last-update element.
LastUpdate(soup) ==
    Value({IF date_elem # None /\ Strip(get_text(date_elem)) # ""
           THEN SearchDate(Strip(get_text(date_elem)))
           ELSE None :
           date_elem \in {FindDiv(soup, "lastUpdate")}})

ReleaseMarkers == << "For release at", "For immediate release" >>

\* The first string or comment that holds a release marker: the text of
\* the tag it lies in, which is the document for a string at the top level.
ReleaseMarker(soup) ==
    Value({IF release_text # None
           THEN SearchDate(get_text(release_text.parent))
           ELSE None :
           release_text \in
               {First(SelectSeq(descendants(soup),
                    LAMBDA d : /\ ~IsTag(d.node)
                               /\ \E k \in 1..Len(ReleaseMarkers) :
                                      Contains(Characters(d.node),
                                               ReleaseMarkers[k])))}})

HeadingTags == {"h1", "h2", "h3", "h4", "title"}

\* The first heading or title.
FirstHeading(soup) ==
    Value({IF title_elem # None
           THEN SearchDate(Strip(get_text(title_elem)))
           ELSE None :
           title_elem \in {First(find_all(soup, HeadingTags))}})

\* The whole text of the document: its first match of the date pattern.
WholeText(soup) == SearchDate(get_text(soup))

\* What the five strategies give, in the order the source tries them.
Strategies(soup) ==
    << ArticleTime(soup), LastUpdate(soup), ReleaseMarker(soup),
       FirstHeading(soup), WholeText(soup) >>

\* The first outcome that is not None: the source returns from the first
\* strategy that does not fall through.
FirstOutcome(outcomes) ==
    Value({IF hit = {} THEN None ELSE outcomes[SetMin(hit)] :
           hit \in {{k \in 1..Len(outcomes) : outcomes[k] # None}}})

\* The date (a datetime) or None; an exception that escapes a strategy is
\* caught at the end of the function, which then returns None.
_extract_date(soup) ==
    Value({IF outcome = Raised THEN None ELSE outcome :
           outcome \in {FirstOutcome(Strategies(soup))}})

\* ------------------------------------------------------------------------
\* FedMonitor._extract_policy_text
\* ------------------------------------------------------------------------

ContentClass == "col-xs-12 col-sm-8 col-md-8"

\* A paragraph of the content container is kept if it is longer than 100
\* characters or names the federal funds rate or monetary policy.
IsPolicyParagraph(p_text) ==
    \E t \in {p_text} :
        \/ Len(t) > 100
        \/ Contains(Lower(t), "federal funds rate")
        \/ Contains(Lower(t), "monetary policy")

\* text += p_text + " " over the kept paragraphs
RECURSIVE PolicyParagraphs(_)
PolicyParagraphs(p_texts) ==
    Value({IF q = << >> THEN ""
           ELSE (IF IsPolicyParagraph(q[1]) THEN q[1] \o " " ELSE "")
                \o PolicyParagraphs(Tail(q)) :
           q \in {p_texts}})

\* The kept paragraphs of the content container, "" when there is no such
\* container.
ContentText(soup) ==
    Value({IF content = None THEN ""
           ELSE PolicyParagraphs(StrippedTextsOf(find_all(content, {"p"}))) :
           content \in {FindDiv(soup, ContentClass)}})

Selectors == << "main", "article", "#content", ".content", ".main-content" >>

\* A tag is what a selector names: "#i" names the tag whose id is i, ".c"
\* a tag with c among the tokens of its class, any other selector a tag of
\* that name.
Selects(selector, tag) ==
    IF CharAt(selector, 1) = "#"
    THEN tag.id = SubSeq(selector, 2, Len(selector))
    ELSE IF CharAt(selector, 1) = "."
    THEN SubSeq(selector, 2, Len(selector)) \in SeqToSet(Split(tag.class))
    ELSE tag.name = selector

\* soup.select_one(selector): the first tag that the selector names.
select_one(soup, selector) ==
    First(SelectSeq(Tags(soup), LAMBDA t : Selects(selector, t)))

\* The tag of the first selector, in the order of the source, that selects
\* one; None when no selector does.
FirstSelected(soup) ==
    Value({IF hit = {} THEN None ELSE select_one(soup, Selectors[SetMin(hit)]) :
           hit \in {{k \in 1..Len(Selectors) :
                        select_one(soup, Selectors[k]) # None}}})

\* soup.find('body'): None for a page that has no body tag.
Body(soup) == First(find_all(soup, {"body"}))

_extract_policy_text(soup) ==
    Value({
        IF policy # ""
        THEN Strip(policy)
        ELSE IF article # None
        THEN get_text_stripped(article)
        ELSE Value({
            IF content # None
            THEN get_text_stripped(content)
            ELSE IF paragraphs # << >>
            THEN Join(StrippedTextsOf(paragraphs), " ")
            ELSE IF body # None
            THEN get_text_stripped(body)
            ELSE "" :
            content \in {FirstSelected(v)},
            paragraphs \in {find_all(v, {"p"})},
            body \in {Body(v)}}) :
        v \in {soup},
        policy \in {ContentText(soup)},
        article \in {FindDiv(soup, "article__content")}})

\* ------------------------------------------------------------------------
\* FedMonitor.extract_statements
\* ------------------------------------------------------------------------

\* What the fetch of one link gave: the soup (None when fetch_document
\* failed), and whether handling the document raises an unexpected error.
Fetched(url, soup, fault) == [url |-> url, soup |-> soup, fault |-> fault]

\* The body of the loop for one link, without its exception handler: the
\* statement to append, None when the loop continues without one, Raised
\* when an error escapes.
ExtractOne(doc) ==
    IF doc.soup = None THEN None
    ELSE IF doc.fault THEN Raised
    ELSE Value({
        IF date = None THEN None
        ELSE IF text = "" \/ Len(text) < 100 THEN None
        ELSE [date |-> isoformat(date), text |-> text, url |-> doc.url] :
        date \in {_extract_date(doc.soup)},
        text \in {_extract_policy_text(doc.soup)}})

PageTitle == "Federal Reserve issues FOMC statement"

ShortText == "The Committee will hold the target range."

\* <p>text</p>; the parser makes no string of an empty text.
Paragraph(text) ==
    Tag("p", "", "", IF text = "" THEN << >> ELSE << NavigableString(text) >>)

ParagraphsWith(texts) == [k \in 1..Len(texts) |-> Paragraph(texts[k])]

\* <div class="article__time">time</div>
TimeDiv(time) ==
    Tag("div", "article__time", "",
        IF time = "" THEN << >> ELSE << NavigableString(time) >>)

\* A page: the doctype declaration, and the html tag with the title in its
\* head and the given contents in its body.
Page(title, contents) ==
    BeautifulSoup(
        << Comment("html"),
           Tag("html", "", "",
               << Tag("head", "", "",
                      << Tag("title", "", "", << NavigableString(title) >>) >>),
                  Tag("body", "", "", contents) >>) >>)

\* A release page: the title, the article time and the paragraphs.
ReleasePage(time, paragraphs) ==
    Page(PageTitle, << TimeDiv(time) >> \o ParagraphsWith(paragraphs))

\* A release page with two main containers and a heading between them: the
\* article time, the paragraphs in the first container, more in the second.
TwoMainsPage(time, paragraphs, more) ==
    Page(PageTitle,
         << TimeDiv(time),
            Tag("main", "", "", ParagraphsWith(paragraphs)),
            Tag("h2", "", "", << NavigableString("Related information") >>),
            Tag("main", "", "", ParagraphsWith(more)) >>)

\* The paragraphs of the three texts: the last one is empty where the text
\* ends in a space.
ParagraphsOf(text) ==
    IF text = TextNeutral
    THEN << Strip(Boiler),
            "Job gains have remained strong and unemployment has stayed low." >>
    ELSE << Strip(text), "" >>

\* The release of a date with a text; the neutral text stands in the first
\* of two main containers.
Release(time, date, text) ==
    Fetched(UrlOf(date, text),
            IF text = TextNeutral
            THEN TwoMainsPage(time, ParagraphsOf(text), << ShortText >>)
            ELSE ReleasePage(time, ParagraphsOf(text)),
            FALSE)

\* What the fetch of a link can give: three releases that can be
\* extracted, and a document of every kind that cannot: the fetch failed;
\* an error is raised while the document is handled; no date anywhere; a
\* text below 100 characters, in the first of two main containers, the
\* second of which holds a long one; no text at all, in a page that has a
\* title and no body; no text in an empty article container, with long
\* paragraphs after it.
FetchedDocs ==
    {Release("January 15, 2024", "2024-01-15T00:00:00", TextNeutral),
     Release("February 15, 2024", "2024-02-15T00:00:00", TextHike),
     Release("March 15, 2024", "2024-03-15T00:00:00", TextShift),
     Fetched(UrlOf("2024-01-15T00:00:00", TextShift), None, FALSE),
     Fetched(UrlOf("2024-02-15T00:00:00", TextNeutral),
             ReleasePage("February 15, 2024", ParagraphsOf(TextNeutral)),
             TRUE),
     Fetched(UrlOf("2024-03-15T00:00:00", TextHike),
             ReleasePage("", ParagraphsOf(TextHike)), FALSE),
     Fetched(UrlOf("2024-03-15T00:00:00", TextNeutral),
             TwoMainsPage("March 15, 2024", << ShortText >>,
                          ParagraphsOf(TextNeutral)),
             FALSE),
     Fetched(UrlOf("2024-02-15T00:00:00", TextShift),
             BeautifulSoup(
                 << Tag("title", "", "",
                        << NavigableString(
                               "FOMC statement, February 15, 2024") >>) >>),
             FALSE),
     Fetched(UrlOf("2024-01-15T00:00:00", TextHike),
             Page(PageTitle,
                  << TimeDiv("January 15, 2024"),
                     Tag("div", "article__content", "", << >>) >>
                  \o ParagraphsWith(ParagraphsOf(TextHike))),
             FALSE)}

\* The loop body on each of these documents, computed once.
Extraction == [doc \in FetchedDocs |-> ExtractOne(doc)]

\* Mutation of Isolate: the handler around one document is missing, the
\* error escapes the loop.
IsolateMissing(outcome) == outcome

\* except Exception around one document: the error is logged and the loop
\* goes on with the next link.
Isolate(outcome) == IF outcome = Raised THEN None ELSE outcome

\* What each link gives to the loop.
Outcomes(docs) == [k \in 1..Len(docs) |-> Isolate(Extraction[docs[k]])]

\* An error escapes the loop over the links.
ExtractionRaises(docs) ==
    \E q \in {Outcomes(docs)} : \E k \in 1..Len(q) : q[k] = Raised

\* The statements list returned after the loop over the links.
extract_statements(docs) ==
    SelectSeq(Outcomes(docs), LAMBDA o : o # None /\ o # Raised)

\* ------------------------------------------------------------------------
\* State
\* ------------------------------------------------------------------------

VARIABLES
    store,                  \* the list in the blob historical_statements.json
    pc,                     \* "idle", "loop", "done"
    force,                  \* the force argument of the running cycle
    historical_statements,  \* self.historical_statements
    statements,             \* what extract_statements returned
    idx,                    \* the position of the loop over statements
    existing_dates,         \* the dates (keys) of existing_dates
    new_statements,         \* results['new_statements']
    tightening_alerts,      \* results['tightening_alerts']
    previous,               \* the local previous, None while unassigned
    comparison,             \* the local comparison, "" while unassigned
    save_calls,             \* calls of save_historical_data in this cycle
    status,                 \* results['status'], "" while no cycle runs
    fetched,                \* what fetch_document gave for the links
    call,                   \* the arguments of a direct call of a method
    result,                 \* << its return value >>, << >> before it returns
    other                   \* a second request, while this one is served

vars == << store, pc, force, historical_statements, statements, idx,
           existing_dates, new_statements, tightening_alerts, previous,
           comparison, save_calls, status, fetched, call, result, other >>

DatesOf(history) == {history[k].date : k \in 1..Len(history)}

\* A request that has not begun.
IdleRequest ==
    [pc |-> "idle", force |-> FALSE, historical_statements |-> << >>,
     statements |-> << >>, idx |-> 1, existing_dates |-> {},
     new_statements |-> << >>, tightening_alerts |-> << >>,
     previous |-> None, comparison |-> "", save_calls |-> 0, status |-> "",
     fetched |-> << >>]

\* No blob yet; no request being served.
InitMonitor ==
    /\ store = << >>
    /\ pc = "idle"
    /\ force = FALSE
    /\ historical_statements = << >>
    /\ statements = << >>
    /\ idx = 1
    /\ existing_dates = {}
    /\ new_statements = << >>
    /\ tightening_alerts = << >>
    /\ previous = None
    /\ comparison = ""
    /\ save_calls = 0
    /\ status = ""
    /\ fetched = << >>
    /\ other = IdleRequest

Init ==
    /\ InitMonitor
    /\ call = << >>
    /\ result = << >>

\* load_historical_data: the list in the blob, [] when there is none.
load_historical_data == store

\* run_monitoring_cycle up to its loop, on the history that was loaded and
\* the statements that were extracted: the results start empty with status
\* "success" and the dates of the history are collected.
Enter(f, history, docs) ==
    /\ force' = f
    /\ historical_statements' = history
    /\ statements' = docs
    /\ existing_dates' = DatesOf(history)
    /\ idx' = 1
    /\ new_statements' = << >>
    /\ tightening_alerts' = << >>
    /\ previous' = None
    /\ comparison' = ""
    /\ save_calls' = 0
    /\ status' = "success"
    /\ pc' = "loop"

\* fed_monitor_http up to the loop of run_monitoring_cycle: FedMonitor()
\* loads the history and extract_statements returns docs.
Start(f, docs) ==
    /\ pc = "idle"
    /\ Len(store) + Len(docs) <= MaxHist
    /\ Enter(f, load_historical_data, docs)
    /\ fetched' = << >>
    /\ UNCHANGED << store, call, result, other >>

\* statement['text'][:1000] + "..." if len(statement['text']) > 1000
TruncateText(text) ==
    IF Len(text) > 1000 THEN SubSeq(text, 1, 1000) \o "..." ELSE text

\* The record built for a statement.
NewStatement(statement) ==
    [date |-> statement.date,
     text |-> TruncateText(statement.text),
     tightening_score |-> Analysis[statement.text].score,
     tightening_keywords |-> Analysis[statement.text].keywords,
     policy_decisions |-> Analysis[statement.text].decisions,
     url |-> statement.url]

\* The entry of results['new_statements'] for a record.
ResultEntry(new_statement) ==
    [date |-> new_statement.date,
     url |-> new_statement.url,
     tightening_score |-> new_statement.tightening_score,
     keywords |-> new_statement.tightening_keywords,
     policy_decisions |-> new_statement.policy_decisions]

\* Mutation of UpdateHistory: a forced statement of a known date is
\* appended, the record of that date staying.
UpdateHistoryAppending(history, f, existing, new_statement) ==
    IF (~f /\ new_statement.date \notin existing)
       \/ (f /\ new_statement.date \in existing)
    THEN Append(history, new_statement)
    ELSE history

\* Lines 503-510: the history after a statement has been scored.
UpdateHistory(history, f, existing, new_statement) ==
    IF ~f /\ new_statement.date \notin existing
    THEN Append(history, new_statement)
    ELSE IF f /\ new_statement.date \in existing
    THEN [k \in 1..Len(history) |->
            IF history[k].date # new_statement.date THEN history[k]
            ELSE new_statement]
    ELSE history

\* Mutation of SortedByDateDesc: the history in its stored order.
Unsorted(history) == history

\* sorted(history, key=lambda x: x['date'], reverse=True): a stable sort,
\* records of one date keep their order.
SortedByDateDesc(history) ==
    Value({Value({
        [k \in 1..Len(h) |-> h[CHOOSE i \in 1..Len(h) : rank[i] = k]] :
        rank \in
            {[i \in 1..Len(h) |->
                Cardinality({j \in 1..Len(h) :
                                StrLess(h[i].date, h[j].date)})
                + Cardinality({j \in 1..(i - 1) : h[j].date = h[i].date})
                + 1]}}) :
        h \in {history}})

\* Lines 515-526: the first record of the sorted history that is older than
\* the new statement; None when none is older.
SelectPrevious(history, new_statement) ==
    Value({Value({
        IF older = {} THEN None ELSE sorted_statements[SetMin(older)] :
        older \in {{k \in 1..Len(sorted_statements) :
                        StrLess(sorted_statements[k].date,
                                new_statement.date)}}}) :
        sorted_statements \in {SortedByDateDesc(history)}})

\* The records the loop can build from the documents.
AllNewStatements == {NewStatement(s) : s \in Statements}

\* The classifications of their pairs.
AllComparisons ==
    {compare_to_previous(a, b) : a \in AllNewStatements, b \in AllNewStatements}

\* generate_summary on those records and classifications, computed once.
Summaries ==
    [st \in AllNewStatements, cmp \in AllComparisons |->
        generate_summary(st, cmp)]

\* Mutation of IsTighteningAlert: the test ignores case.
IsTighteningAlertAnyCase(cmp) == Contains(Lower(cmp), "tightening shift")

\* "TIGHTENING SHIFT" in comparison
IsTighteningAlert(cmp) == Contains(cmp, "TIGHTENING SHIFT")

\* Lines 513-537 for a statement that has been scored: previous and
\* comparison are assigned only where the code assigns them.
Compare(history, new_statement) ==
    IF Len(history) > 1
    THEN \E prev \in {SelectPrevious(history, new_statement)} :
            /\ previous' = prev
            /\ IF prev # None
               THEN \E cmp \in {compare_to_previous(new_statement, prev)} :
                       /\ comparison' = cmp
                       /\ tightening_alerts' =
                              IF IsTighteningAlert(cmp)
                              THEN Append(tightening_alerts,
                                       [statement_date |-> new_statement.date,
                                        summary |->
                                            Summaries[new_statement, cmp]])
                              ELSE tightening_alerts
               ELSE UNCHANGED << comparison, tightening_alerts >>
    ELSE UNCHANGED << previous, comparison, tightening_alerts >>

\* One iteration of the loop over the statements (lines 478-537).
ProcessStatement ==
    /\ pc = "loop"
    /\ idx <= Len(statements)
    /\ IF force \/ statements[idx].date \notin existing_dates
       THEN \E new_statement \in {NewStatement(statements[idx])} :
               \E history \in {UpdateHistory(historical_statements, force,
                                             existing_dates, new_statement)} :
                   /\ new_statements' =
                          Append(new_statements, ResultEntry(new_statement))
                   /\ historical_statements' = history
                   /\ Compare(history, new_statement)
       ELSE UNCHANGED << new_statements, historical_statements, previous,
                         comparison, tightening_alerts >>
    /\ idx' = idx + 1
    /\ UNCHANGED << store, pc, force, statements, existing_dates, save_calls,
                    status, fetched, call, result, other >>

\* Mutation of save_historical_data: the records of the blob whose date the
\* history does not hold are kept in front of the history.
SaveMerging(blob, history) ==
    SelectSeq(blob, LAMBDA r : r.date \notin DatesOf(history)) \o history

\* save_historical_data: the blob is overwritten with the whole in-memory
\* history, whatever it held.
save_historical_data(blob, history) == history

\* Mutation of ShouldSave: every cycle saves.
ShouldSaveAlways(f, results_new_statements) == TRUE

\* Line 540: not force or (force and results['new_statements'])
ShouldSave(f, results_new_statements) ==
    ~f \/ (f /\ results_new_statements # << >>)

\* Lines 540-541: after the loop the history is saved, unless the cycle is
\* forced and found nothing; save_historical_data overwrites the blob.
SaveHistory ==
    /\ pc = "loop"
    /\ idx > Len(statements)
    /\ IF ShouldSave(force, new_statements)
       THEN /\ store' = save_historical_data(store, historical_statements)
            /\ save_calls' = save_calls + 1
       ELSE UNCHANGED << store, save_calls >>
    /\ pc' = "done"
    /\ UNCHANGED << force, historical_statements, statements, idx,
                    existing_dates, new_statements, tightening_alerts,
                    previous, comparison, status, fetched, call, result, other >>

\* fed_monitor_http returns the results; the monitor object is dropped.
Return ==
    /\ pc = "done"
    /\ pc' = "idle"
    /\ force' = FALSE
    /\ historical_statements' = << >>
    /\ statements' = << >>
    /\ idx' = 1
    /\ existing_dates' = {}
    /\ new_statements' = << >>
    /\ tightening_alerts' = << >>
    /\ previous' = None
    /\ comparison' = ""
    /\ save_calls' = 0
    /\ status' = ""
    /\ fetched' = << >>
    /\ UNCHANGED << store, call, result, other >>

Next ==
    \/ \E f \in BOOLEAN, docs \in StatementLists : Start(f, docs)
    \/ ProcessStatement
    \/ SaveHistory
    \/ Return

Spec == Init /\ [][Next]_vars

\* ------------------------------------------------------------------------
\* Properties of the monitoring cycle
\* ------------------------------------------------------------------------

\* The loop is about to score statements[idx] (line 480 lets it through).
Scoring ==
    /\ pc = "loop"
    /\ idx <= Len(statements)
    /\ (force \/ statements[idx].date \notin existing_dates)

\* The loop has just handled statements[idx - 1].
Handled == pc \in {"loop", "done"} /\ idx > 1

\* The record the source builds from a statement, field by field.
BuiltFrom(statement) ==
    [date |-> statement.date,
     text |-> IF Len(statement.text) > 1000
              THEN SubSeq(statement.text, 1, 1000) \o "..."
              ELSE statement.text,
     tightening_score |-> Analysis[statement.text].score,
     tightening_keywords |-> Analysis[statement.text].keywords,
     policy_decisions |-> Analysis[statement.text].decisions,
     url |-> statement.url]

\* Dates of a history are pairwise distinct.
DistinctDates(history) ==
    \A i \in 1..Len(history), j \in 1..Len(history) :
        history[i].date = history[j].date => i = j

\* C1: for either value of force, when the cycle is over the in-memory
\* history holds a record for every extracted statement whose date was not
\* in the history at the start of the cycle.
C1_NewDateAppended ==
    pc = "done" =>
        \A k \in 1..Len(statements) :
            statements[k].date \notin existing_dates
                => statements[k].date \in DatesOf(historical_statements)

\* C2: no two records of the in-memory history, and no two records of the
\* persisted history, have the same date.
C2_DateIsUniqueKey ==
    DistinctDates(historical_statements) /\ DistinctDates(store)

\* C3: in a cycle that is not forced, a statement whose date the history
\* already holds is not added to new_statements and leaves the history as it
\* is (same length, same records).
C3_KnownDateSkipped ==
    [][(/\ pc = "loop"
        /\ idx <= Len(statements)
        /\ idx' = idx + 1
        /\ ~force
        /\ statements[idx].date \in DatesOf(historical_statements))
       => /\ new_statements' = new_statements
          /\ historical_statements' = historical_statements]_vars

\* C4: in a forced cycle, a statement whose date the history already holds
\* replaces the record of that date by the record built from it (date, text
\* cut to 1000 characters, score, keywords, decisions, url); the records of
\* other dates and the length of the history do not change.
C4_ForceReplaces ==
    [][(/\ pc = "loop"
        /\ idx <= Len(statements)
        /\ idx' = idx + 1
        /\ force
        /\ statements[idx].date \in DatesOf(historical_statements))
       => /\ Len(historical_statements') = Len(historical_statements)
          /\ \A k \in 1..Len(historical_statements) :
                historical_statements'[k] =
                    IF historical_statements[k].date = statements[idx].date
                    THEN BuiltFrom(statements[idx])
                    ELSE historical_statements[k]]_vars

\* A forced statement has replaced a record of a history of two records or
\* more by a different record, with its text cut to 1000 characters.
C4_Witness ==
    /\ Handled
    /\ force
    /\ Len(historical_statements) >= 2
    /\ \E k \in 1..Len(historical_statements) :
          /\ historical_statements[k].date = statements[idx - 1].date
          /\ historical_statements[k] = BuiltFrom(statements[idx - 1])
          /\ historical_statements[k] # store[k]
          /\ Len(historical_statements[k].text) = 1003

\* The step scores a statement and selects a predecessor for it: after the
\* update the history holds more than one record, one of them older.
SelectsPredecessor ==
    /\ Scoring
    /\ idx' = idx + 1
    /\ Len(historical_statements') > 1
    /\ \E k \in 1..Len(historical_statements') :
          StrLess(historical_statements'[k].date, statements[idx].date)

\* The alert the source appends for statements[idx].
AlertFor(statement, cmp) ==
    [statement_date |-> statement.date,
     summary |-> Summaries[BuiltFrom(statement), cmp]]

\* score of statements[idx] minus score of the selected predecessor
Rise == FloatSub(Analysis[statements[idx].text].score,
                 previous'.tightening_score)

\* C5 (as amended): when a predecessor is selected for a scored statement,
\* an alert {statement_date, summary} is appended if the score rose by more
\* than 15 (a significant tightening shift) and no alert is appended
\* otherwise: a moderate tightening shift (5 < diff <= 15) raises none.
C5_AlertIffSignificant ==
    [][SelectsPredecessor =>
          tightening_alerts' =
              IF FloatGtInt(Rise, 15)
              THEN Append(tightening_alerts,
                          AlertFor(statements[idx], comparison'))
              ELSE tightening_alerts]_vars

\* C5 (as stated): when a predecessor is selected for a scored statement, an
\* alert is appended if the score rose by more than 5, that is for a
\* moderate as well as for a significant tightening shift.
C5_AlertOnEitherLevel ==
    [][SelectsPredecessor =>
          tightening_alerts' =
              IF FloatGtInt(Rise, 5)
              THEN Append(tightening_alerts,
                          AlertFor(statements[idx], comparison'))
              ELSE tightening_alerts]_vars

\* A cycle has scored two statements: the first rose significantly and
\* raised an alert, the second rose by exactly 15 and raised none.
C5_Witness ==
    /\ Handled
    /\ Len(new_statements) = 2
    /\ Len(tightening_alerts) = 1
    /\ tightening_alerts[1].statement_date = new_statements[1].date
    /\ previous # None
    /\ comparison = "Moderate tightening shift: +15.0 points"

\* Every alert's date is the date of an entry of new_statements, and
\* new_statements holds no more entries than statements were extracted.
C6_Counts ==
    /\ Len(new_statements) <= Len(statements)
    /\ Len(tightening_alerts) <= Len(new_statements)
    /\ \A a \in 1..Len(tightening_alerts) :
          \E k \in 1..Len(new_statements) :
              new_statements[k].date = tightening_alerts[a].statement_date

\* A step that adds an alert adds one alert, together with one entry of
\* new_statements of the same date whose score exceeds the score of the
\* selected predecessor by more than 15.
C6_AlertStep ==
    Len(tightening_alerts') > Len(tightening_alerts) =>
        /\ Len(tightening_alerts') = Len(tightening_alerts) + 1
        /\ SubSeq(tightening_alerts', 1, Len(tightening_alerts))
              = tightening_alerts
        /\ Len(new_statements') = Len(new_statements) + 1
        /\ tightening_alerts'[Len(tightening_alerts')].statement_date
              = new_statements'[Len(new_statements')].date
        /\ previous' # None
        /\ FloatGtInt(FloatSub(
               new_statements'[Len(new_statements')].tightening_score,
               previous'.tightening_score), 15)

\* C6: an alert is appended only together with an entry of new_statements of
\* the same date, whose score exceeds the score of the selected predecessor
\* by more than 15; every alert's date is the date of an entry of
\* new_statements, and new_statements never holds more entries than
\* statements were extracted.
C6_AlertsAreSignificantNew == []C6_Counts /\ [][C6_AlertStep]_vars

\* A cycle has skipped one statement and raised an alert for another.
C6_Witness ==
    /\ pc = "done"
    /\ Len(statements) = 2
    /\ Len(new_statements) = 1
    /\ Len(tightening_alerts) = 1
    /\ tightening_alerts[1].statement_date = new_statements[1].date

\* C7: the previous record used for a scored statement is a record of the
\* history, strictly older than the statement, and no record of the history
\* that is strictly older than the statement is newer than it, whatever the
\* order of the history list; it is selected whenever the history holds more
\* than one record and an older one.
C7_PreviousIsLatestOlder ==
    [][(Scoring /\ idx' = idx + 1 /\ Len(historical_statements') > 1)
       => IF \E k \in 1..Len(historical_statements') :
                StrLess(historical_statements'[k].date, statements[idx].date)
          THEN /\ \E k \in 1..Len(historical_statements') :
                     previous' = historical_statements'[k]
               /\ StrLess(previous'.date, statements[idx].date)
               /\ \A k \in 1..Len(historical_statements') :
                     StrLess(historical_statements'[k].date,
                             statements[idx].date)
                       => ~StrLess(previous'.date,
                                   historical_statements'[k].date)
          ELSE previous' = None]_vars

\* The history is out of chronological order (the second record is older
\* than the first), the statement just appended is newer than both and its
\* previous record is the first of the list.
C7_Witness ==
    /\ Handled
    /\ Len(historical_statements) = 3
    /\ StrLess(historical_statements[2].date, historical_statements[1].date)
    /\ StrLess(historical_statements[1].date, historical_statements[3].date)
    /\ historical_statements[3].date = statements[idx - 1].date
    /\ previous = historical_statements[1]

\* No save while the loop runs, at most one in a cycle; when the cycle is
\* over the history has been saved exactly if the cycle is not forced or
\* new_statements is not empty.
C9_SaveCount ==
    /\ save_calls <= 1
    /\ pc = "loop" => save_calls = 0
    /\ pc = "done" =>
          (save_calls = 1 <=> (~force \/ new_statements # << >>))

\* Only the step that ends the loop writes the blob or counts a save, and
\* it writes the in-memory history.
C9_SaveStep ==
    (store' # store \/ save_calls' > save_calls) =>
        /\ pc = "loop"
        /\ idx = Len(statements) + 1
        /\ pc' = "done"
        /\ store' = historical_statements
        /\ save_calls' = 1

\* C9: the history is written only by the step that ends the loop, after
\* every statement has been handled, and at most once in a cycle; a cycle
\* that is not forced writes it even with no new statement, a forced cycle
\* writes it exactly when new_statements is not empty.
C9_SavedOnceAtEnd == []C9_SaveCount /\ [][C9_SaveStep]_vars

\* A cycle that is not forced has skipped every statement it extracted and
\* has saved the history.
C9_Witness ==
    /\ pc = "done"
    /\ ~force
    /\ Len(statements) > 0
    /\ new_statements = << >>
    /\ save_calls = 1
    /\ store # << >>

\* ------------------------------------------------------------------------
\* compare_to_previous called on its own
\* ------------------------------------------------------------------------

\* Scores are the half points 0, 0.5, ... up to MaxHalfPoints / 2.
MaxHalfPoints == 140

\* Scores of texts of 101 and of 157 words with one keyword, without and
\* with the bonus of 15: floats that are not multiples of a half, and whose
\* difference is a little more than 15.
RoundedScores ==
    {Density(1, 101), FloatAdd(Density(1, 101), FloatOfInt(15)),
     Density(1, 157), FloatAdd(Density(1, 157), FloatOfInt(15))}

\* Statements as the comparison reads them: a score, or no score at all.
ScoredStatements ==
    {[tightening_score |-> FloatDiv(FloatOfInt(k), FloatOfInt(2))] :
        k \in 0..MaxHalfPoints}
    \cup {[tightening_score |-> x] : x \in RoundedScores}
    \cup {[date |-> "2024-01-15T00:00:00"]}

monitor == << store, pc, force, historical_statements, statements, idx,
              existing_dates, new_statements, tightening_alerts, previous,
              comparison, save_calls, status, fetched, other >>

InitCompare ==
    /\ InitMonitor
    /\ call \in {<< c, p >> : c \in ScoredStatements,
                              p \in ScoredStatements \cup {None}}
    /\ result = << >>

CallCompare ==
    /\ result = << >>
    /\ result' = << compare_to_previous(call[1], call[2]) >>
    /\ UNCHANGED << monitor, call >>

NextCompare == CallCompare

SpecCompare == InitCompare /\ [][NextCompare]_vars

\* C8: compare_to_previous puts every pair of scores in exactly one class,
\* by diff = current - previous: more than 15 significant tightening, more
\* than 5 and at most 15 moderate tightening, less than -15 significant
\* loosening, less than -5 and at least -15 moderate loosening, otherwise no
\* significant shift; without a previous statement it returns the
\* no-comparison text. (70, 50) is a significant tightening shift of 20.0 and
\* (50, 48) no significant shift, of 2.0.
C8_Classes ==
    result # << >> =>
        IF call[2] = None
        THEN result[1] = "No previous statement for comparison"
        ELSE \E cur \in {ScoreOf(call[1])}, prv \in {ScoreOf(call[2])} :
             \E diff \in {FloatSub(cur, prv)} :
             LET Is(class) == StartsAt(result[1], 1, class)
             IN  /\ FloatGtInt(diff, 15) <=> Is("SIGNIFICANT TIGHTENING SHIFT: +")
                 /\ (FloatGtInt(diff, 5) /\ ~FloatGtInt(diff, 15))
                       <=> Is("Moderate tightening shift: +")
                 /\ FloatLtInt(diff, -15) <=> Is("SIGNIFICANT LOOSENING SHIFT: -")
                 /\ (FloatLtInt(diff, -5) /\ ~FloatLtInt(diff, -15))
                       <=> Is("Moderate loosening shift: -")
                 /\ (~FloatLtInt(diff, -5) /\ ~FloatGtInt(diff, 5))
                       <=> Is("No significant policy shift: ")
                 /\ (cur = FloatOfInt(70) /\ prv = FloatOfInt(50))
                       => result[1] = "SIGNIFICANT TIGHTENING SHIFT: +20.0 points"
                 /\ (cur = FloatOfInt(50) /\ prv = FloatOfInt(48))
                       => result[1] = "No significant policy shift: 2.0 points"

\* Scores 65 and 50 have been compared: a difference of exactly 15 is a
\* moderate tightening shift.
C8_Witness ==
    /\ call = << [tightening_score |-> FloatOfInt(65)],
                 [tightening_score |-> FloatOfInt(50)] >>
    /\ result = << "Moderate tightening shift: +15.0 points" >>

\* ------------------------------------------------------------------------
\* analyze_tightening_signals called on its own
\* ------------------------------------------------------------------------

\* A text is at most MaxPhrases phrases, one after the other.
MaxPhrases == 2

\* Twelve words without a signal.
Filler == "economic activity expanded at a solid pace and job gains were strong "

\* More than a hundred words without a signal.
LongFiller ==
    Filler \o Filler \o Filler \o Filler \o Filler \o Filler \o Filler
    \o Filler \o Filler

\* Keywords with the three boosts: a change of stance, a comparative and a
\* rate increase.
AllBoosts ==
    "hawkish shift in stance to a more restrictive policy as we raise the policy rate QT "

Phrases ==
    << "hawkish ",
       "quantitative tightening QT ",
       "a shift in policy stance ",
       "further restrictive policy ",
       "decided to raise the federal funds rate ",
       "cut the interest rate ",
       AllBoosts,
       LongFiller >>

RECURSIVE Concat(_, _)
Concat(q, k) ==
    Value({IF j > Len(q) THEN "" ELSE Phrases[q[j]] \o Concat(q, j + 1) :
           j \in {k}})

AnalyzeTexts ==
    {Concat(q, 1) :
        q \in UNION {[1..n -> 1..Len(Phrases)] : n \in 0..MaxPhrases}}

InitAnalyze ==
    /\ InitMonitor
    /\ call \in {<< text >> : text \in AnalyzeTexts}
    /\ result = << >>

CallAnalyze ==
    /\ result = << >>
    /\ result' = << analyze_tightening_signals(call[1]) >>
    /\ UNCHANGED << monitor, call >>

NextAnalyze == CallAnalyze

SpecAnalyze == InitAnalyze /\ [][NextAnalyze]_vars

\* C10: the score analyze_tightening_signals returns is at least 0 and at
\* most 100, for the empty text and for texts of keywords with every boost
\* or with the easing penalty; the empty text returns (0, [], []).
C10_ScoreInRange ==
    result # << >> =>
        /\ ~FloatLtInt(result[1].score, 0)
        /\ ~FloatGtInt(result[1].score, 100)
        /\ call[1] = "" =>
              result[1] = [score |-> FloatOfInt(0),
                           keywords |-> << >>, decisions |-> << >>]

\* The text of keywords with every boost has been scored 100, its keywords
\* found.
C10_Witness ==
    /\ call = << AllBoosts >>
    /\ result # << >>
    /\ result[1].score = FloatOfInt(100)
    /\ result[1].keywords = << "hawkish", "restrictive policy", "QT" >>

\* ------------------------------------------------------------------------
\* The cycle on fetched documents
\* ------------------------------------------------------------------------

\* At most MaxLinks links are found on the calendar page in one cycle.
MaxLinks == 2

FetchedLists == UNION {[1..n -> FetchedDocs] : n \in 0..MaxLinks}

\* extract_statements on the lists of fetched documents, computed once.
Extracted ==
    [docs \in FetchedLists |->
        [raises |-> ExtractionRaises(docs),
         statements |-> extract_statements(docs)]]

\* An exception inside run_monitoring_cycle (lines 548-551): the status
\* becomes "error" and the cycle ends without its loop and without a save.
Fail(f, history) ==
    /\ force' = f
    /\ historical_statements' = history
    /\ statements' = << >>
    /\ existing_dates' = {}
    /\ idx' = 1
    /\ new_statements' = << >>
    /\ tightening_alerts' = << >>
    /\ previous' = None
    /\ comparison' = ""
    /\ save_calls' = 0
    /\ status' = "error"
    /\ pc' = "done"

\* fed_monitor_http up to the loop of run_monitoring_cycle, the statements
\* extracted from what the fetches gave.
StartFetched(f, docs) ==
    /\ pc = "idle"
    /\ Len(store) + Len(docs) <= MaxHist
    /\ fetched' = docs
    /\ IF Extracted[docs].raises
       THEN Fail(f, load_historical_data)
       ELSE Enter(f, load_historical_data, Extracted[docs].statements)
    /\ UNCHANGED << store, call, result, other >>

NextExtract ==
    \/ \E f \in BOOLEAN, docs \in FetchedLists : StartFetched(f, docs)
    \/ ProcessStatement
    \/ SaveHistory
    \/ Return

SpecExtract == Init /\ [][NextExtract]_vars

\* The four ways in which a document fails, as the source tests them.
Failing ==
    [doc \in FetchedDocs |->
        \/ doc.soup = None
        \/ doc.fault
        \/ _extract_date(doc.soup) = None
        \/ Len(_extract_policy_text(doc.soup)) < 100]

\* The statement of a document that does not fail.
StatementOf ==
    [doc \in {d \in FetchedDocs : ~Failing[d]} |->
        [date |-> isoformat(_extract_date(doc.soup)),
         text |-> _extract_policy_text(doc.soup),
         url |-> doc.url]]

\* The statements of the documents that do not fail, in the order of the
\* links.
Surviving(docs) ==
    Value({[k \in 1..Len(kept) |-> StatementOf[kept[k]]] :
           kept \in {SelectSeq(docs, LAMBDA d : ~Failing[d])}})

UrlsOf(records) == [k \in 1..Len(records) |-> records[k].url]

\* The statements that pass the test at the head of the loop.
Admitted ==
    SelectSeq(statements, LAMBDA s : force \/ s.date \notin existing_dates)

\* C11: while a cycle runs on any list of fetched documents, the extracted
\* statements are exactly the documents that do not fail (fetch failed,
\* error raised, date absent, text empty or below 100 characters), in the
\* order of the links; the status is "success"; and when the loop has ended
\* every statement has been handled and the new statements are the admitted
\* ones, in that order.
C11_FailuresIsolated ==
    pc # "idle" =>
        /\ statements = Surviving(fetched)
        /\ status = "success"
        /\ pc = "done" =>
              /\ idx = Len(statements) + 1
              /\ UrlsOf(new_statements) = UrlsOf(Admitted)

\* A cycle has ended on a list that holds a document that raised an error
\* and a release after it, which was extracted and recorded.
C11_Witness ==
    /\ pc = "done"
    /\ Len(fetched) = 2
    /\ fetched[1].soup # None
    /\ fetched[1].fault
    /\ ~Failing[fetched[2]]
    /\ Len(new_statements) = 1
    /\ new_statements[1].url = fetched[2].url
    /\ status = "success"
    /\ store # << >>

\* ------------------------------------------------------------------------
\* _extract_date called on its own
\* ------------------------------------------------------------------------

\* What a document can hold, in document order; << >> stands for a part
\* that is missing.  Of each kind there is one with a date and one that is
\* malformed: the article time abbreviates the month, the last update and
\* the release line match the date pattern without naming a date, the
\* title and the paragraph have no date.  The date of the first release
\* line stands in a tag of its own next to the marker.
TitleChoices ==
    {<< >>,
     << Tag("title", "", "", << NavigableString(PageTitle) >>) >>,
     << Tag("title", "", "",
            << NavigableString("FOMC statement of April 30, 2024") >>) >>}

ArticleTimeChoices ==
    {<< >>,
     << TimeDiv("January 15, 2024") >>,
     << TimeDiv("Jan. 15, 2024") >>}

LastUpdateChoices ==
    {<< >>,
     << Tag("div", "lastUpdate", "",
            << NavigableString("Last Update: February 15, 2024") >>) >>,
     << Tag("div", "lastUpdate", "",
            << NavigableString("Last Update: Sept 20, 2023") >>) >>}

ReleaseChoices ==
    {<< >>,
     << Tag("p", "", "",
            << NavigableString("For release at 2:00 p.m. EST "),
               Tag("span", "", "", << NavigableString("March 15, 2024") >>) >>) >>,
     << Paragraph("For immediate release June 31, 2024") >>}

ParagraphChoices ==
    {<< >>,
     << Paragraph(ShortText) >>,
     << Paragraph(
            "The Committee met on May 1, 2024 and held the target range.") >>}

DateSoups ==
    {BeautifulSoup(<< Tag("html", "", "",
                          << Tag("head", "", "", t),
                             Tag("body", "", "", a \o u \o r \o p) >>) >>) :
        t \in TitleChoices, a \in ArticleTimeChoices, u \in LastUpdateChoices,
        r \in ReleaseChoices, p \in ParagraphChoices}

InitDate ==
    /\ InitMonitor
    /\ call \in {<< soup >> : soup \in DateSoups}
    /\ result = << >>

CallDate ==
    /\ result = << >>
    /\ result' = << _extract_date(call[1]) >>
    /\ UNCHANGED << monitor, call >>

NextDate == CallDate

SpecDate == InitDate /\ [][NextDate]_vars

IsDate(outcome) == outcome # None /\ outcome # Raised

\* The date of the first strategy, in the order of the source, that yields
\* a date; None when none does.
FirstDate(outcomes) ==
    Value({IF hit = {} THEN None ELSE outcomes[SetMin(hit)] :
           hit \in {{k \in 1..Len(outcomes) : IsDate(outcomes[k])}}})

\* C12: _extract_date returns the date of the first of its five strategies
\* (article time, last update, release marker, first heading or title,
\* whole text) that yields a date, whatever the earlier strategies found,
\* and None only when no strategy yields a date.
C12_FirstParsedDate ==
    result # << >> => result[1] = FirstDate(Strategies(call[1]))

\* ------------------------------------------------------------------------
\* Two requests served at the same time
\* ------------------------------------------------------------------------

\* Each of two overlapping cycles extracts at most MaxOverlapDocs statements.
MaxOverlapDocs == 1

\* The releases of two meetings, the second one a tightening.
OverlapStatements ==
    {[date |-> d, text |-> t, url |-> UrlOf(d, t)] :
        << d, t >> \in {<< "2024-01-15T00:00:00", TextNeutral >>,
                        << "2024-02-15T00:00:00", TextHike >>}}

OverlapLists == UNION {[1..n -> OverlapStatements] : n \in 0..MaxOverlapDocs}

\* The request being served: its FedMonitor object and the locals of its
\* run_monitoring_cycle.
Request ==
    [pc |-> pc, force |-> force,
     historical_statements |-> historical_statements,
     statements |-> statements, idx |-> idx,
     existing_dates |-> existing_dates, new_statements |-> new_statements,
     tightening_alerts |-> tightening_alerts, previous |-> previous,
     comparison |-> comparison, save_calls |-> save_calls,
     status |-> status, fetched |-> fetched]

\* fed_monitor_http takes no lock and every request builds its own
\* FedMonitor: between any two steps of one request the other request can
\* be served, from where it was.  Only the blob is shared.
Switch ==
    /\ other' = Request
    /\ pc' = other.pc
    /\ force' = other.force
    /\ historical_statements' = other.historical_statements
    /\ statements' = other.statements
    /\ idx' = other.idx
    /\ existing_dates' = other.existing_dates
    /\ new_statements' = other.new_statements
    /\ tightening_alerts' = other.tightening_alerts
    /\ previous' = other.previous
    /\ comparison' = other.comparison
    /\ save_calls' = other.save_calls
    /\ status' = other.status
    /\ fetched' = other.fetched
    /\ UNCHANGED << store, call, result >>

NextOverlap ==
    \/ \E f \in BOOLEAN, docs \in OverlapLists : Start(f, docs)
    \/ ProcessStatement
    \/ SaveHistory
    \/ Return
    \/ Switch

SpecOverlap == Init /\ [][NextOverlap]_vars

\* The dates a request has added to the history it loaded.
AppendedBy(request) ==
    DatesOf(request.historical_statements) \ request.existing_dates

\* A request has ended after writing the blob.
HasSaved(request) == request.pc = "done" /\ request.save_calls = 1

\* C13: nothing keeps two cycles from overlapping, and a save overwrites
\* the blob whole: whenever both requests have saved, the blob is the
\* history of one of them alone (the one that wrote last), never a merge
\* of the two.
C13_LastWriteWins ==
    (HasSaved(Request) /\ HasSaved(other)) =>
        store \in {historical_statements, other.historical_statements}

\* Both requests loaded the history before either saved, each appended a
\* record of a date the other does not hold, both saved, and the record
\* the other request saved is missing from the blob, which is the history
\* this request wrote last.
C13_Witness ==
    /\ HasSaved(Request)
    /\ HasSaved(other)
    /\ existing_dates = other.existing_dates
    /\ \E e \in AppendedBy(Request) :
           e \notin DatesOf(other.historical_statements)
    /\ \E d \in AppendedBy(other) :
           /\ d \notin DatesOf(historical_statements)
           /\ d \notin DatesOf(store)
    /\ store = historical_statements

\* ------------------------------------------------------------------------
\* Requests served one after the other, the store failing at times
\* ------------------------------------------------------------------------

\* FedMonitor() when load_historical_data fails: the exception is caught
\* (lines 432-437) and the history starts empty, whatever the blob holds.
StartLoadFailed(f, docs) ==
    /\ pc = "idle"
    /\ Len(store) + Len(docs) <= MaxHist
    /\ Enter(f, << >>, docs)
    /\ fetched' = << >>
    /\ UNCHANGED << store, call, result, other >>

\* The end of the loop when save_historical_data fails: the exception is
\* caught (lines 454-455), the blob stays as it was and the cycle ends as
\* it does after a save.
SaveFailed ==
    /\ pc = "loop"
    /\ idx > Len(statements)
    /\ ShouldSave(force, new_statements)
    /\ save_calls' = save_calls + 1
    /\ pc' = "done"
    /\ UNCHANGED << store, force, historical_statements, statements, idx,
                    existing_dates, new_statements, tightening_alerts,
                    previous, comparison, status, fetched, call, result,
                    other >>

NextFaulty ==
    \/ \E f \in BOOLEAN, docs \in StatementLists : Start(f, docs)
    \/ \E f \in BOOLEAN, docs \in StatementLists : StartLoadFailed(f, docs)
    \/ ProcessStatement
    \/ SaveHistory
    \/ SaveFailed
    \/ Return

SpecFaulty == Init /\ [][NextFaulty]_vars

\* C14: over requests served one after the other, with any force values
\* and with loads and saves that may fail, a date that the blob holds is
\* held by every later content of the blob.
C14_DatesDurable == [][DatesOf(store) \subseteq DatesOf(store')]_vars

====
